---- MODULE Spec2Model ----
(***************************************************************************)
(* Model of the two lighting demos of 2.lighting/2.2.basic_lighting_specular: *)
(*   "single": basic_lighting_specular.cpp (one window, global camera)      *)
(*   "multi" : the three-window driver stored in 2.2.flat_lighting.vs       *)
(*             (lines 54-489 of that file)                                  *)
(* and of generateSphere, which both programs share verbatim.               *)
(*                                                                         *)
(* Floats are fixed-point integers with Scale units per 1.0.  Angles are    *)
(* rational multiples of pi, so sinf/cosf are computed by range reduction   *)
(* and a Taylor polynomial in fixed point.  glfwGetTime is a clock that     *)
(* counts units of pi/ClockDen seconds and moves only when it is read.      *)
(***************************************************************************)
EXTENDS Integers, Sequences, FiniteSets

VARIABLES
    prog,        \* which program runs: "single", "multi" ("unit": generateSphere alone)
    pc,          \* position of main
    i,           \* loop index of main's for loops (0 in the single-window program)
    window,      \* window[w]: TRUE iff glfwCreateWindow returned a non-NULL handle
    shouldClose, \* GLFW close flag of each window
    keys,        \* keys[w]: keys GLFW reports as pressed for window w
    windows,     \* WindowData per window (the globals camera/lastX/lastY/firstMouse in "single")
    userPointer, \* glfwSetWindowUserPointer: window -> index of the WindowData it points to
    context,     \* window whose GL context is current, -1 for none
    now,         \* value of the GLFW timer
    deltaTime,
    lastFrame,
    lightPos,
    sphereSize,  \* sphereVertices.size()
    glObjects,   \* live GL objects: [type, name, ctx]
    terminated,  \* glfwTerminate has been called
    exitCode,    \* value returned by main
    out,         \* lines written to std::cout
    tick,        \* number of render-loop iterations started
    events,      \* number of events delivered by glfwPollEvents so far
    log,         \* calls issued in the current tick, in order
    closeTick,   \* tick in which each window's close flag was set (0: not set)
    gs           \* generateSphere's frame: parameters, loop indices, tempVertices, vertices

progVars == <<prog, pc, i, window, shouldClose, keys, windows, userPointer, context, now,
              deltaTime, lastFrame, lightPos, sphereSize, glObjects, terminated, exitCode,
              out, tick, events, log, closeTick>>
vars == <<progVars, gs>>

-----------------------------------------------------------------------------
(* Bounds of the model *)

MaxTick == 3
MaxTime == 2
MaxEvents == 1
MaxSector == 4
MaxStack == 3
MaxCursorEvents == 3

-----------------------------------------------------------------------------
(* Fixed-point floats and trigonometry *)

Scale == 10000

Pi == 31416

Abs(x) == IF x < 0 THEN -x ELSE x

\* a * b and a / b on fixed-point values, rounding towards zero
FMul(a, b) == IF (a < 0) = (b < 0) THEN (Abs(a) * Abs(b)) \div Scale
              ELSE -((Abs(a) * Abs(b)) \div Scale)
FDiv(a, b) == IF (a < 0) = (b < 0) THEN (Abs(a) * Scale) \div Abs(b)
              ELSE -((Abs(a) * Scale) \div Abs(b))

\* sin x for 0 <= x <= pi/2 (fixed point), Taylor polynomial up to x^9
SinTaylor(x) ==
    LET x2 == (x * x) \div Scale
        t4 == Scale - x2 \div 72
        t3 == Scale - ((x2 * t4) \div Scale) \div 42
        t2 == Scale - ((x2 * t3) \div Scale) \div 20
        t1 == Scale - ((x2 * t2) \div Scale) \div 6
    IN  (x * t1) \div Scale

\* sinf(pi * n / d), d > 0
SinPi(n, d) ==
    LET m == n % (2 * d)                         \* angle in [0, 2 pi)
        h == IF m >= d THEN m - d ELSE m         \* half turn removed
        q == IF 2 * h > d THEN d - h ELSE h      \* reflected into [0, pi/2]
        v == IF q = 0 THEN 0
             ELSE IF 2 * q = d THEN Scale
             ELSE SinTaylor((Pi * q) \div d)
    IN  IF m >= d THEN -v ELSE v

\* cosf(pi * n / d) = sin(pi * n / d + pi / 2)
CosPi(n, d) == SinPi(2 * n + d, 2 * d)

-----------------------------------------------------------------------------
(* Program constants and static data *)

NumWindowsMulti == 3
ClockDen == 6
lightRadius == 2
lightSpeed == 1

NumWindows == IF prog = "multi" THEN NumWindowsMulti ELSE IF prog = "single" THEN 1 ELSE 0
Win == 0 .. (NumWindows - 1)

SCR_WIDTH == IF prog = "single" THEN 1000 ELSE 800
SCR_HEIGHT == IF prog = "single" THEN 800 ELSE 600

lightCenter == [x |-> 0, y |-> 0, z |-> (35 * Scale) \div 10]

Keys == {"ESC", "W", "S", "A", "D"}
CursorPositions == {<<410, 290>>, <<395, 310>>}
ScrollOffsets == {-1, 1}

NullShader == [vs |-> "null", ctx |-> -1, name |-> 0, compiled |-> FALSE]

\* title given to glfwCreateWindow for windows[w].window
Title(w) ==
    IF prog = "multi"
    THEN <<"LearnOpenGL - Phong", "LearnOpenGL - Gouraud", "LearnOpenGL - Flat">>[w + 1]
    ELSE "LearnOpenGL"

\* the vertex shader of each shading model, as the comments at the constructions name them
ModelShader ==
    [Phong |-> "2.2.basic_lighting.vs", Gouraud |-> "2.2.gouraud_lighting.vs",
     Flat |-> "2.2.flat_lighting.vs"]

WindowFailedMsg == "Failed to create GLFW window"
GladFailedMsg == "Failed to initialize GLAD"
ShaderFailedMsg == "ERROR::SHADER"

-----------------------------------------------------------------------------
(* Camera controller (learnopengl/camera.h): pose kept as displacements from *)
(* the initial pose, along the camera's local axes                           *)

Camera == [fwd |-> 0, right |-> 0, Yaw |-> 0, Pitch |-> 0, Zoom |-> 0]

ProcessKeyboard(cam, direction, dt) ==
    CASE direction = "FORWARD"  -> [cam EXCEPT !.fwd = @ + dt]
      [] direction = "BACKWARD" -> [cam EXCEPT !.fwd = @ - dt]
      [] direction = "LEFT"     -> [cam EXCEPT !.right = @ - dt]
      [] direction = "RIGHT"    -> [cam EXCEPT !.right = @ + dt]

ProcessMouseMovement(cam, xoffset, yoffset) ==
    [cam EXCEPT !.Yaw = @ + xoffset, !.Pitch = @ + yoffset]

ProcessMouseScroll(cam, yoffset) == [cam EXCEPT !.Zoom = @ - yoffset]

\* Shader(vertexPath, fragmentPath): program object `name` of the context current at the
\* call; `compiled` tells whether its sources were read, compiled and linked
Shader(vs, name, ctx, compiled) == [vs |-> vs, ctx |-> ctx, name |-> name, compiled |-> compiled]

\* whether the Shader constructor returns to its caller: a shading procedure that fails
\* to compile is fatal, the process ends inside the constructor with a diagnostic
ShaderConstructorReturnsAlways(compiled) == TRUE
ShaderConstructorReturns(compiled) == compiled

\* exit status of a process ended by a failed shading procedure
ShaderFailureStatus == 1

-----------------------------------------------------------------------------
(* Helpers of main *)

\* WindowData as set up by main (the file-scope globals in the single-window program)
InitWindowData ==
    [camera |-> Camera, lastX |-> SCR_WIDTH \div 2, lastY |-> SCR_HEIGHT \div 2,
     firstMouse |-> TRUE, lightingShader |-> NullShader, lightCubeShader |-> NullShader]

\* static_cast<float>(glfwGetTime()): the timer never runs backwards
ClockNext == {t \in {now, now + 1} : t <= MaxTime}

\* the record of one call, with the light position in force after it
Op(name, w, light) == [op |-> name, win |-> w, light |-> light]

RenderOps == {"clear", "sphere", "cube", "swap"}

\* window1 == NULL || window2 == NULL || window3 == NULL  (window == NULL)
WindowCheckFirstOnly == ~window[0]
WindowCheckFails == \E w \in Win : ~window[w]

\* the render loop's condition
LoopCondAlways == TRUE
LoopCondAnyOpen == \E w \in Win : ~shouldClose[w]
LoopCond == \A w \in Win : ~shouldClose[w]

\* lightCenter + (sin(angle), cos(angle), 0) * lightRadius, angle = time * lightSpeed
OrbitPosSwapped(time) ==
    [lightPos EXCEPT
        !.x = lightCenter.x + CosPi(time * lightSpeed, ClockDen) * lightRadius,
        !.y = lightCenter.y + SinPi(time * lightSpeed, ClockDen) * lightRadius]
OrbitPos(time) ==
    [lightPos EXCEPT
        !.x = lightCenter.x + SinPi(time * lightSpeed, ClockDen) * lightRadius,
        !.y = lightCenter.y + CosPi(time * lightSpeed, ClockDen) * lightRadius]

\* the value handed to setVec3("lightPos", ...) and to glm::translate(model, ...)
lightPosUniform == lightPos
markerTranslateCenter == lightCenter
markerTranslate == lightPos

\* WindowData a callback of window w works on
UserPointerFirst(w) == 0
UserPointerTarget(w) == w
DataOf(w) == IF prog = "single" THEN 0 ELSE userPointer[w]

-----------------------------------------------------------------------------
(* generateSphere(vertices, radius, sectorCount, stackCount) *)

GsIdle == [phase |-> "idle", radius |-> 0, sectorCount |-> 0, stackCount |-> 0,
           i |-> 0, j |-> 0, tempVertices |-> <<>>, vertices |-> <<>>]

\* the frame at entry: `vertices` is the caller's vector, tempVertices is empty
GsEntry(vertices, radius, sectorCount, stackCount) ==
    [phase |-> "grid", radius |-> radius, sectorCount |-> sectorCount,
     stackCount |-> stackCount, i |-> 0, j |-> 0, tempVertices |-> <<>>,
     vertices |-> vertices]

\* nx = x / radius
NormalComponentRaw(c, radius) == c
NormalComponent(c, radius) == FDiv(c, radius)

\* body of the first loop nest: position and normal of grid vertex (i, j).
\* stackAngle = pi/2 - i * pi/stackCount, sectorAngle = j * 2 pi/sectorCount
GridVertex(g) ==
    LET xy == FMul(g.radius, CosPi(g.stackCount - 2 * g.i, 2 * g.stackCount))
        z  == FMul(g.radius, SinPi(g.stackCount - 2 * g.i, 2 * g.stackCount))
        x  == FMul(xy, CosPi(2 * g.j, g.sectorCount))
        y  == FMul(xy, SinPi(2 * g.j, g.sectorCount))
    IN  <<x, y, z, NormalComponent(x, g.radius), NormalComponent(y, g.radius),
          NormalComponent(z, g.radius)>>

\* one iteration of "for i <= stackCount, for j <= sectorCount"
GridStep(g) ==
    LET lastJ == g.j = g.sectorCount
        lastI == g.i = g.stackCount
    IN  [g EXCEPT !.tempVertices = @ \o GridVertex(g),
                  !.j = IF lastJ THEN 0 ELSE @ + 1,
                  !.i = IF lastJ THEN (IF lastI THEN 0 ELSE @ + 1) ELSE @,
                  !.phase = IF lastJ /\ lastI THEN "tri" ELSE @]

\* indices of the quad corners of cell (i, j)
K1(g) == g.i * (g.sectorCount + 1) + g.j
K2(g) == K1(g) + 1
K3NoSeam(g) == (g.i + 1) * g.sectorCount + g.j
K3SkipRow(g) == (g.i + 2) * (g.sectorCount + 1) + g.j
K3(g) == (g.i + 1) * (g.sectorCount + 1) + g.j
K4(g) == K3(g) + 1

\* for (k = 0; k < 6; ++k) vertices.push_back(tempVertices[kx * 6 + k])
Corner(g, kx) == [k \in 1 .. 6 |-> g.tempVertices[kx * 6 + k]]

\* the guards of the two triangles of a cell
EmitFirstAlways(ci, stackCount) == TRUE
EmitFirst(ci, stackCount) == ci # 0
EmitSecondAlways(ci, stackCount) == TRUE
EmitSecond(ci, stackCount) == ci # stackCount - 1

\* the grid indices k for which cell (g.i, g.j) reads tempVertices[k * 6 + 0 .. 5]
CornersRead(g) ==
    (IF EmitFirst(g.i, g.stackCount) THEN {K1(g), K2(g), K3(g)} ELSE {})
    \cup (IF EmitSecond(g.i, g.stackCount) THEN {K2(g), K4(g), K3(g)} ELSE {})

\* one iteration of "for i < stackCount, for j < sectorCount"
TriStep(g) ==
    LET first  == IF EmitFirst(g.i, g.stackCount)
                  THEN Corner(g, K1(g)) \o Corner(g, K2(g)) \o Corner(g, K3(g))
                  ELSE <<>>
        second == IF EmitSecond(g.i, g.stackCount)
                  THEN Corner(g, K2(g)) \o Corner(g, K4(g)) \o Corner(g, K3(g))
                  ELSE <<>>
        lastJ  == g.j = g.sectorCount - 1
        lastI  == g.i = g.stackCount - 1
    IN  [g EXCEPT !.vertices = @ \o first \o second,
                  !.j = IF lastJ THEN 0 ELSE @ + 1,
                  !.i = IF lastJ THEN (IF lastI THEN 0 ELSE @ + 1) ELSE @,
                  !.phase = IF lastJ /\ lastI THEN "done" ELSE @]

\* the next iteration of whichever loop nest is running
GsStep(g) == IF g.phase = "grid" THEN GridStep(g) ELSE TriStep(g)

\* the inner loop: iterations up to the end of the current row
RECURSIVE GsRunRow(_)
GsRunRow(g) ==
    LET n == GsStep(g)
    IN  IF n.i # g.i \/ n.phase # g.phase THEN n ELSE GsRunRow(n)

\* the outer loops: row after row until the function returns
RECURSIVE GsRun(_)
GsRun(g) == IF g.phase \in {"grid", "tri"} THEN GsRun(GsRunRow(g)) ELSE g

\* the contents of `vertices` when the call returns
generateSphere(vertices, radius, sectorCount, stackCount) ==
    GsRun(GsEntry(vertices, radius, sectorCount, stackCount)).vertices

\* generateSphere(sphereVertices, radius, sectors, stacks) as called by each main
sectorsSingle == 24
stacksSingle == 12
sectorsMulti == 16
stacksMulti == 8
SphereVerticesSingle == generateSphere(<<>>, Scale \div 2, sectorsSingle, stacksSingle)
SphereVerticesMulti == generateSphere(<<>>, Scale \div 2, sectorsMulti, stacksMulti)

-----------------------------------------------------------------------------
(* main: start-up *)

\* state at entry of main, after glfwInit and the window hints
Init ==
    /\ prog \in {"single", "multi"}
    /\ pc = "create"
    /\ i = 0
    /\ window = [w \in Win |-> FALSE]
    /\ shouldClose = [w \in Win |-> FALSE]
    /\ keys = [w \in Win |-> {}]
    /\ windows = [w \in Win |-> InitWindowData]
    /\ userPointer = [w \in Win |-> -1]
    /\ context = -1
    /\ now = 0
    /\ deltaTime = 0
    /\ lastFrame = 0
    /\ lightPos = lightCenter
    /\ sphereSize = 0
    /\ glObjects = {}
    /\ terminated = FALSE
    /\ exitCode = 0
    /\ out = <<>>
    /\ tick = 0
    /\ events = 0
    /\ log = <<>>
    /\ closeTick = [w \in Win |-> 0]
    /\ gs = GsIdle

\* glfwCreateWindow, once per window: each call yields a handle or NULL
CreateWindows ==
    /\ pc = "create"
    /\ \E h \in [Win -> BOOLEAN] : window' = h
    /\ pc' = "checkWindow"
    /\ UNCHANGED <<prog, i, shouldClose, keys, windows, userPointer, context, now, deltaTime,
                   lastFrame, lightPos, sphereSize, glObjects, terminated, exitCode, out,
                   tick, events, log, closeTick, gs>>

\* a NULL handle: diagnostic, glfwTerminate, return -1
WindowCheckFailed ==
    /\ pc = "checkWindow"
    /\ WindowCheckFails
    /\ out' = Append(out, WindowFailedMsg)
    /\ terminated' = TRUE
    /\ glObjects' = {}
    /\ context' = -1
    /\ exitCode' = -1
    /\ pc' = "returned"
    /\ UNCHANGED <<prog, i, window, shouldClose, keys, windows, userPointer, now, deltaTime,
                   lastFrame, lightPos, sphereSize, tick, events, log, closeTick, gs>>

\* all handles valid: the WindowData array is filled in (multi-window program)
WindowCheckPassed ==
    /\ pc = "checkWindow"
    /\ ~WindowCheckFails
    /\ windows' = [w \in Win |-> InitWindowData]
    /\ i' = 0
    /\ pc' = "callbacks"
    /\ UNCHANGED <<prog, window, shouldClose, keys, userPointer, context, now, deltaTime,
                   lastFrame, lightPos, sphereSize, glObjects, terminated, exitCode, out,
                   tick, events, log, closeTick, gs>>

\* glfwMakeContextCurrent, user pointer (multi-window program) and callbacks of
\* window i, then gladLoadGLLoader, which succeeds or fails
SetCallbacks ==
    /\ pc = "callbacks"
    /\ context' = i
    /\ userPointer' = IF prog = "multi" THEN [userPointer EXCEPT ![i] = UserPointerTarget(i)]
                    ELSE userPointer
    /\ \E loaded \in BOOLEAN :
         IF loaded
         THEN /\ i' = IF i + 1 < NumWindows THEN i + 1 ELSE 0
              /\ pc' = IF i + 1 < NumWindows THEN "callbacks" ELSE "shaders"
              /\ UNCHANGED <<out, exitCode>>
         ELSE /\ out' = Append(out, GladFailedMsg)
              /\ exitCode' = -1
              /\ pc' = "returned"
              /\ i' = i
    /\ UNCHANGED <<prog, window, shouldClose, keys, windows, now, deltaTime, lastFrame,
                   lightPos, sphereSize, glObjects, terminated, tick, events, log,
                   closeTick, gs>>

\* the Shader constructions of main, in program order: the WindowData slot and field
\* assigned, the vertex shader, the program name and the context made current before
ShaderLoads ==
    IF prog = "multi"
    THEN << [win |-> 2, field |-> "lightingShader",  vs |-> "2.2.basic_lighting.vs",   name |-> 1, ctx |-> 0],
            [win |-> 2, field |-> "lightCubeShader", vs |-> "2.2.light_cube.vs",       name |-> 2, ctx |-> 0],
            [win |-> 1, field |-> "lightingShader",  vs |-> "2.2.gouraud_lighting.vs", name |-> 1, ctx |-> 1],
            [win |-> 1, field |-> "lightCubeShader", vs |-> "2.2.light_cube.vs",       name |-> 2, ctx |-> 1],
            [win |-> 0, field |-> "lightingShader",  vs |-> "2.2.flat_lighting.vs",    name |-> 1, ctx |-> 2],
            [win |-> 0, field |-> "lightCubeShader", vs |-> "2.2.light_cube.vs",       name |-> 2, ctx |-> 2] >>
    ELSE << [win |-> 0, field |-> "lightingShader",  vs |-> "2.2.flat_lighting.vs",    name |-> 1, ctx |-> 0],
            [win |-> 0, field |-> "lightCubeShader", vs |-> "2.2.light_cube.vs",       name |-> 2, ctx |-> 0] >>

\* number of constructions that return, when construction k compiles iff compiled[k]
ShadersConstructed(compiled) ==
    LET stops == {k \in DOMAIN ShaderLoads : ~ShaderConstructorReturns(compiled[k])}
    IN  IF stops = {} THEN Len(ShaderLoads)
        ELSE (CHOOSE k \in stops : \A m \in stops : k <= m) - 1

\* the value of windows[w].field after the first n constructions
ShaderField(w, field, n, compiled) ==
    LET done == {k \in 1 .. n : ShaderLoads[k].win = w /\ ShaderLoads[k].field = field}
    IN  IF done = {} THEN windows[w][field]
        ELSE LET k == CHOOSE k \in done : TRUE
             IN  Shader(ShaderLoads[k].vs, ShaderLoads[k].name, ShaderLoads[k].ctx, compiled[k])

\* the program object a construction creates in the context current at the call
ShaderObjects(n) ==
    {[type |-> "program", name |-> ShaderLoads[k].name, ctx |-> ShaderLoads[k].ctx] : k \in 1 .. n}

\* the three "glfwMakeContextCurrent; new Shader; new Shader" blocks
\* (two Shader locals in the single-window program)
LoadShaders ==
    /\ pc = "shaders"
    /\ \E compiled \in [DOMAIN ShaderLoads -> BOOLEAN] :
         LET n       == ShadersConstructed(compiled)
             started == 1 .. (IF n < Len(ShaderLoads) THEN n + 1 ELSE n)
             failed  == {k \in started : ~compiled[k]}
         IN  /\ windows' = [w \in Win |->
                    [windows[w] EXCEPT
                        !.lightingShader  = ShaderField(w, "lightingShader", n, compiled),
                        !.lightCubeShader = ShaderField(w, "lightCubeShader", n, compiled)]]
             /\ glObjects' = glObjects \cup ShaderObjects(n)
             /\ context' = ShaderLoads[CHOOSE k \in started : \A m \in started : m <= k].ctx
             /\ out' = out \o [k \in 1 .. Cardinality(failed) |-> ShaderFailedMsg]
             /\ IF n < Len(ShaderLoads)
                THEN pc' = "returned" /\ exitCode' = ShaderFailureStatus
                ELSE pc' = "genSphere" /\ exitCode' = exitCode
    /\ UNCHANGED <<prog, i, window, shouldClose, keys, userPointer, now, deltaTime, lastFrame,
                   lightPos, sphereSize, terminated, tick, events, log, closeTick, gs>>

\* generateSphere(sphereVertices, radius, sectors, stacks)
GenerateSphereCall ==
    /\ pc = "genSphere"
    /\ sphereSize' = IF prog = "multi" THEN Len(SphereVerticesMulti)
                     ELSE Len(SphereVerticesSingle)
    /\ pc' = "buffers"
    /\ UNCHANGED <<prog, i, window, shouldClose, keys, windows, userPointer, context, now,
                   deltaTime, lastFrame, lightPos, glObjects, terminated, exitCode, out,
                   tick, events, log, closeTick, gs>>

\* glGenVertexArrays/glGenBuffers for the sphere and for the light cube, in context ctx:
\* sphereVAO = 1, lightCubeVAO = 2, VBO = 1, lightVBO = 2 in every context
BufferObjectsSphereOnly(ctx) == {[type |-> "vao", name |-> 1, ctx |-> ctx],
                                 [type |-> "vbo", name |-> 1, ctx |-> ctx]}
BufferObjects(ctx) == {[type |-> "vao", name |-> 1, ctx |-> ctx],
                       [type |-> "vao", name |-> 2, ctx |-> ctx],
                       [type |-> "vbo", name |-> 1, ctx |-> ctx],
                       [type |-> "vbo", name |-> 2, ctx |-> ctx]}

\* the buffer set-up loop (each window's context made current in turn) and
\* the placement of the windows
SetupBuffers ==
    /\ pc = "buffers"
    /\ glObjects' = glObjects \cup UNION {BufferObjects(w) : w \in Win}
    /\ context' = NumWindows - 1
    /\ pc' = "loop"
    /\ UNCHANGED <<prog, i, window, shouldClose, keys, windows, userPointer, now, deltaTime,
                   lastFrame, lightPos, sphereSize, terminated, exitCode, out, tick, events,
                   log, closeTick, gs>>

-----------------------------------------------------------------------------
(* main: the render loop *)

\* loop condition true: per-frame time logic
LoopEnter ==
    /\ pc = "loop"
    /\ LoopCond
    /\ tick < MaxTick
    /\ \E currentFrame \in ClockNext :
         /\ now' = currentFrame
         /\ deltaTime' = currentFrame - lastFrame
         /\ lastFrame' = currentFrame
    /\ tick' = tick + 1
    /\ log' = <<>>
    /\ i' = 0
    /\ pc' = IF prog = "multi" THEN "light" ELSE "input"
    /\ UNCHANGED <<prog, window, shouldClose, keys, windows, userPointer, context, lightPos,
                   sphereSize, glObjects, terminated, exitCode, out, events, closeTick, gs>>

\* loop condition false
LoopExit ==
    /\ pc = "loop"
    /\ ~LoopCond
    /\ pc' = "cleanup"
    /\ UNCHANGED <<prog, i, window, shouldClose, keys, windows, userPointer, context, now,
                   deltaTime, lastFrame, lightPos, sphereSize, glObjects, terminated,
                   exitCode, out, tick, events, log, closeTick, gs>>

\* angle = glfwGetTime() * lightSpeed; lightPos.x, lightPos.y on the orbit
UpdateLight ==
    /\ pc = "light"
    /\ \E t \in ClockNext :
         /\ now' = t
         /\ lightPos' = OrbitPos(t)
         /\ log' = Append(log, Op("light", -1, OrbitPos(t)))
    /\ pc' = IF prog = "multi" THEN "turn" ELSE "drawSphere"
    /\ UNCHANGED <<prog, i, window, shouldClose, keys, windows, userPointer, context,
                   deltaTime, lastFrame, sphereSize, glObjects, terminated, exitCode, out,
                   tick, events, closeTick, gs>>

\* head of "for (i = 0; i < 3; i++)": skip a closed window, else make its context current
WindowTurn ==
    /\ pc = "turn"
    /\ IF shouldClose[i]
       THEN /\ log' = Append(log, Op("skip", i, lightPos))
            /\ i' = IF i + 1 < NumWindows THEN i + 1 ELSE 0
            /\ pc' = IF i + 1 < NumWindows THEN "turn" ELSE "poll"
            /\ context' = context
       ELSE /\ log' = Append(log, Op("current", i, lightPos))
            /\ context' = i
            /\ pc' = "input"
            /\ i' = i
    /\ UNCHANGED <<prog, window, shouldClose, keys, windows, userPointer, now, deltaTime,
                   lastFrame, lightPos, sphereSize, glObjects, terminated, exitCode, out,
                   tick, events, closeTick, gs>>

\* the camera after the four movement keys have been sampled
MoveCamera(cam, pressed, dt) ==
    LET c1 == IF "W" \in pressed THEN ProcessKeyboard(cam, "FORWARD", dt) ELSE cam
        c2 == IF "S" \in pressed THEN ProcessKeyboard(c1, "BACKWARD", dt) ELSE c1
        c3 == IF "A" \in pressed THEN ProcessKeyboard(c2, "LEFT", dt) ELSE c2
    IN  IF "D" \in pressed THEN ProcessKeyboard(c3, "RIGHT", dt) ELSE c3

\* processInput for window i
ProcessInput ==
    /\ pc = "input"
    /\ shouldClose' = IF "ESC" \in keys[i] THEN [shouldClose EXCEPT ![i] = TRUE]
                      ELSE shouldClose
    /\ closeTick' = IF "ESC" \in keys[i] /\ ~shouldClose[i]
                    THEN [closeTick EXCEPT ![i] = tick] ELSE closeTick
    /\ windows' = [windows EXCEPT ![i].camera = MoveCamera(@, keys[i], deltaTime)]
    /\ log' = Append(log, Op("input", i, lightPos))
    /\ pc' = "clear"
    /\ UNCHANGED <<prog, i, window, keys, userPointer, context, now, deltaTime, lastFrame,
                   lightPos, sphereSize, glObjects, terminated, exitCode, out, tick, events,
                   gs>>

\* what follows glClear: the lighting shader's draw, or first the light animation
\* (single-window program)
AfterClearNoLight == "drawSphere"
AfterClear == IF prog = "multi" THEN "drawSphere" ELSE "light"

\* glClearColor, glClear
Clear ==
    /\ pc = "clear"
    /\ log' = Append(log, Op("clear", i, lightPos))
    /\ pc' = AfterClear
    /\ UNCHANGED <<prog, i, window, shouldClose, keys, windows, userPointer, context, now,
                   deltaTime, lastFrame, lightPos, sphereSize, glObjects, terminated,
                   exitCode, out, tick, events, closeTick, gs>>

\* the program object a Shader refers to, with the context it was created in
ProgramOf(shader) == [type |-> "program", name |-> shader.name, ctx |-> shader.ctx]

\* the objects named by the draw of the sphere and of the light cube for window w,
\* and by the glDelete calls after the loop, each with the context it was created in
SphereDrawObjects(w) ==
    {ProgramOf(windows[w].lightingShader), [type |-> "vao", name |-> 1, ctx |-> w]}
CubeDrawObjects(w) ==
    {ProgramOf(windows[w].lightCubeShader), [type |-> "vao", name |-> 2, ctx |-> w]}
CleanupDeletes == UNION {BufferObjects(w) : w \in Win}

\* lighting shader: uniforms, view/projection, model; glDrawArrays of the sphere
DrawSphere ==
    /\ pc = "drawSphere"
    /\ log' = Append(log, Op("sphere", i, lightPosUniform))
    /\ pc' = "drawCube"
    /\ UNCHANGED <<prog, i, window, shouldClose, keys, windows, userPointer, context, now,
                   deltaTime, lastFrame, lightPos, sphereSize, glObjects, terminated,
                   exitCode, out, tick, events, closeTick, gs>>

\* light-cube shader: model = translate(lightPos) * scale(0.2); glDrawArrays of the cube
DrawCube ==
    /\ pc = "drawCube"
    /\ log' = Append(log, Op("cube", i, markerTranslate))
    /\ pc' = "swap"
    /\ UNCHANGED <<prog, i, window, shouldClose, keys, windows, userPointer, context, now,
                   deltaTime, lastFrame, lightPos, sphereSize, glObjects, terminated,
                   exitCode, out, tick, events, closeTick, gs>>

\* what follows glfwSwapBuffers: the next window's turn, glfwPollEvents after the last
AfterSwapPoll == "poll"
AfterSwap == IF i + 1 < NumWindows THEN "turn" ELSE "poll"

\* glfwSwapBuffers, end of the per-window body
SwapBuffers ==
    /\ pc = "swap"
    /\ log' = Append(log, Op("swap", i, lightPos))
    /\ i' = IF i + 1 < NumWindows THEN i + 1 ELSE 0
    /\ pc' = AfterSwap
    /\ UNCHANGED <<prog, window, shouldClose, keys, windows, userPointer, context, now,
                   deltaTime, lastFrame, lightPos, sphereSize, glObjects, terminated,
                   exitCode, out, tick, events, closeTick, gs>>

-----------------------------------------------------------------------------
(* glfwPollEvents: pending events are delivered one by one to the callbacks *)

\* key press or release: GLFW updates the state glfwGetKey samples
KeyEvent ==
    /\ pc = "poll"
    /\ events < MaxEvents
    /\ \E w \in Win, k \in Keys :
         /\ keys' = [keys EXCEPT ![w] = IF k \in @ THEN @ \ {k} ELSE @ \cup {k}]
         /\ log' = Append(log, Op("key", w, lightPos))
    /\ events' = events + 1
    /\ UNCHANGED <<prog, pc, i, window, shouldClose, windows, userPointer, context, now,
                   deltaTime, lastFrame, lightPos, sphereSize, glObjects, terminated,
                   exitCode, out, tick, closeTick, gs>>

\* the cursor-position callback (mouse_callback in the single-window program)
\* <<xoffset, yoffset>> as the callback computes them: on the first event lastX, lastY
\* are set to the event's position before the offsets are taken
CursorOffsetNoFirst(data, xpos, ypos) == <<xpos - data.lastX, data.lastY - ypos>>
CursorOffset(data, xpos, ypos) ==
    LET fromX == IF data.firstMouse THEN xpos ELSE data.lastX
        fromY == IF data.firstMouse THEN ypos ELSE data.lastY
    IN  <<xpos - fromX, fromY - ypos>>

CursorPosCallback(data, xpos, ypos) ==
    LET xoffset == CursorOffset(data, xpos, ypos)[1]
        yoffset == CursorOffset(data, xpos, ypos)[2]
    IN  [data EXCEPT !.lastX = xpos, !.lastY = ypos, !.firstMouse = FALSE,
                     !.camera = ProcessMouseMovement(@, xoffset, yoffset)]

\* the record of one call of the cursor-position callback of window w: the position
\* reported and the offsets handed to ProcessMouseMovement
CursorOp(w, xpos, ypos) ==
    [op |-> "cursor", win |-> w, light |-> lightPos, xpos |-> xpos, ypos |-> ypos,
     xoffset |-> CursorOffset(windows[DataOf(w)], xpos, ypos)[1],
     yoffset |-> CursorOffset(windows[DataOf(w)], xpos, ypos)[2]]

\* GLFW calls the cursor-position callback of window w with position pos
CursorDelivery(w, pos) ==
    /\ windows' = [windows EXCEPT ![DataOf(w)] = CursorPosCallback(@, pos[1], pos[2])]
    /\ log' = Append(log, CursorOp(w, pos[1], pos[2]))

CursorEvent ==
    /\ pc = "poll"
    /\ events < MaxEvents
    /\ \E w \in Win, pos \in CursorPositions : CursorDelivery(w, pos)
    /\ events' = events + 1
    /\ UNCHANGED <<prog, pc, i, window, shouldClose, keys, userPointer, context, now,
                   deltaTime, lastFrame, lightPos, sphereSize, glObjects, terminated,
                   exitCode, out, tick, closeTick, gs>>

\* the scroll callback
ScrollEvent ==
    /\ pc = "poll"
    /\ events < MaxEvents
    /\ \E w \in Win, yoffset \in ScrollOffsets :
         /\ windows' = [windows EXCEPT
                          ![DataOf(w)].camera = ProcessMouseScroll(@, yoffset)]
         /\ log' = Append(log, Op("scroll", w, lightPos))
    /\ events' = events + 1
    /\ UNCHANGED <<prog, pc, i, window, shouldClose, keys, userPointer, context, now,
                   deltaTime, lastFrame, lightPos, sphereSize, glObjects, terminated,
                   exitCode, out, tick, closeTick, gs>>

\* the user asks the window system to close window w: GLFW sets its close flag
CloseEvent ==
    /\ pc = "poll"
    /\ events < MaxEvents
    /\ \E w \in Win :
         /\ shouldClose' = [shouldClose EXCEPT ![w] = TRUE]
         /\ closeTick' = IF shouldClose[w] THEN closeTick
                         ELSE [closeTick EXCEPT ![w] = tick]
         /\ log' = Append(log, Op("close", w, lightPos))
    /\ events' = events + 1
    /\ UNCHANGED <<prog, pc, i, window, keys, windows, userPointer, context, now, deltaTime,
                   lastFrame, lightPos, sphereSize, glObjects, terminated, exitCode, out,
                   tick, gs>>

\* glfwPollEvents returns: back to the loop condition
PollReturn ==
    /\ pc = "poll"
    /\ log' = Append(log, Op("poll", -1, lightPos))
    /\ pc' = "loop"
    /\ UNCHANGED <<prog, i, window, shouldClose, keys, windows, userPointer, context, now,
                   deltaTime, lastFrame, lightPos, sphereSize, glObjects, terminated,
                   exitCode, out, tick, events, closeTick, gs>>

-----------------------------------------------------------------------------
(* main: after the loop *)

\* delete of the Shader objects; glDeleteVertexArrays/glDeleteBuffers of every
\* window's names, all issued in the context that is current
Cleanup ==
    /\ pc = "cleanup"
    /\ glObjects' = glObjects \ BufferObjects(context)
    /\ pc' = "terminate"
    /\ UNCHANGED <<prog, i, window, shouldClose, keys, windows, userPointer, context, now,
                   deltaTime, lastFrame, lightPos, sphereSize, terminated, exitCode, out,
                   tick, events, log, closeTick, gs>>

\* glfwTerminate (destroys every window and context); return 0
Terminate ==
    /\ pc = "terminate"
    /\ terminated' = TRUE
    /\ glObjects' = {}
    /\ context' = -1
    /\ exitCode' = 0
    /\ pc' = "returned"
    /\ UNCHANGED <<prog, i, window, shouldClose, keys, windows, userPointer, now, deltaTime,
                   lastFrame, lightPos, sphereSize, out, tick, events, log, closeTick, gs>>

Next ==
    \/ CreateWindows
    \/ WindowCheckFailed
    \/ WindowCheckPassed
    \/ SetCallbacks
    \/ LoadShaders
    \/ GenerateSphereCall
    \/ SetupBuffers
    \/ LoopEnter
    \/ LoopExit
    \/ UpdateLight
    \/ WindowTurn
    \/ ProcessInput
    \/ Clear
    \/ DrawSphere
    \/ DrawCube
    \/ SwapBuffers
    \/ KeyEvent
    \/ CursorEvent
    \/ ScrollEvent
    \/ CloseEvent
    \/ PollReturn
    \/ Cleanup
    \/ Terminate

Spec == Init /\ [][Next]_vars

-----------------------------------------------------------------------------
(* Start-up and the first tick, with all the events of the first glfwPollEvents *)
(* being cursor movements                                                       *)

\* one more cursor movement delivered by the first glfwPollEvents
CursorBurst ==
    /\ pc = "poll"
    /\ events < MaxCursorEvents
    /\ \E w \in Win, pos \in CursorPositions : CursorDelivery(w, pos)
    /\ events' = events + 1
    /\ UNCHANGED <<prog, pc, i, window, shouldClose, keys, userPointer, context, now,
                   deltaTime, lastFrame, lightPos, sphereSize, glObjects, terminated,
                   exitCode, out, tick, closeTick, gs>>

NextCursor ==
    \/ CreateWindows
    \/ WindowCheckFailed
    \/ WindowCheckPassed
    \/ SetCallbacks
    \/ LoadShaders
    \/ GenerateSphereCall
    \/ SetupBuffers
    \/ LoopEnter
    \/ UpdateLight
    \/ WindowTurn
    \/ ProcessInput
    \/ Clear
    \/ DrawSphere
    \/ DrawCube
    \/ SwapBuffers
    \/ CursorBurst

SpecCursor == Init /\ [][NextCursor]_vars

-----------------------------------------------------------------------------
(* generateSphere alone, on bounded parameters and an empty output vector *)

Radii == {Scale \div 2, Scale, 2 * Scale}

InitSphere ==
    /\ prog = "unit"
    /\ pc = "unit"
    /\ i = 0
    /\ window = <<>>
    /\ shouldClose = <<>>
    /\ keys = <<>>
    /\ windows = <<>>
    /\ userPointer = <<>>
    /\ context = -1
    /\ now = 0
    /\ deltaTime = 0
    /\ lastFrame = 0
    /\ lightPos = lightCenter
    /\ sphereSize = 0
    /\ glObjects = {}
    /\ terminated = FALSE
    /\ exitCode = 0
    /\ out = <<>>
    /\ tick = 0
    /\ events = 0
    /\ log = <<>>
    /\ closeTick = <<>>
    /\ \E radius \in Radii, sectorCount \in 1 .. MaxSector, stackCount \in 1 .. MaxStack :
         gs = GsEntry(<<>>, radius, sectorCount, stackCount)

\* one iteration of the vertex loop nest
SphereGridStep ==
    /\ gs.phase = "grid"
    /\ gs' = GridStep(gs)
    /\ UNCHANGED progVars

\* one iteration of the triangulation loop nest
SphereTriStep ==
    /\ gs.phase = "tri"
    /\ gs' = TriStep(gs)
    /\ UNCHANGED progVars

NextSphere == SphereGridStep \/ SphereTriStep

SpecSphere == InitSphere /\ [][NextSphere]_vars

-----------------------------------------------------------------------------
(* Properties of generateSphere (checked under SpecSphere) *)

ValidParams == gs.sectorCount >= 3 /\ gs.stackCount >= 2 /\ gs.radius > 0

\* C4: with sectorCount >= 3 and stackCount >= 2, a call on an empty vector leaves
\* exactly 6 * sectorCount * (stackCount - 1) vertices of 6 floats each in it, that
\* is 2 * sectorCount * (stackCount - 1) whole triangles.
SphereVertexCount ==
    (gs.phase = "done" /\ ValidParams) =>
        /\ Len(gs.vertices) = 6 * (6 * gs.sectorCount * (gs.stackCount - 1))
        /\ Len(gs.vertices) \div 6 = 6 * gs.sectorCount * (gs.stackCount - 1)
        /\ Len(gs.vertices) = 18 * (2 * gs.sectorCount * (gs.stackCount - 1))

SphereVertexCountWitness ==
    /\ gs.phase = "done"
    /\ gs.sectorCount = 4
    /\ gs.stackCount = 3
    /\ Len(gs.vertices) = 288

\* position of corner c (0, 1, 2) of triangle t (from 0) of the vertex sequence v,
\* in units of 0.01
CornerPos(v, t, c) == [k \in 1 .. 3 |-> v[18 * t + 6 * c + k] \div 100]

Cross(a, b) == <<a[2] * b[3] - a[3] * b[2], a[3] * b[1] - a[1] * b[3],
                 a[1] * b[2] - a[2] * b[1]>>
Dot(a, b) == a[1] * b[1] + a[2] * b[2] + a[3] * b[3]
Minus(a, b) == <<a[1] - b[1], a[2] - b[2], a[3] - b[3]>>
Plus(a, b) == <<a[1] + b[1], a[2] + b[2], a[3] + b[3]>>

\* the face normal of triangle t by the right-hand rule, measured along the
\* outward direction: positive iff the corners run counter-clockwise seen from outside
Orientation(v, t) ==
    LET a == CornerPos(v, t, 0)
        b == CornerPos(v, t, 1)
        c == CornerPos(v, t, 2)
    IN  Dot(Cross(Minus(b, a), Minus(c, a)), Plus(Plus(a, b), c))

Triangles(v) == 0 .. (Len(v) \div 18 - 1)

\* C5: every emitted triangle is counter-clockwise as seen from outside the sphere.
SphereWindingCCW ==
    (gs.phase = "done" /\ ValidParams) =>
        \A t \in Triangles(gs.vertices) : Orientation(gs.vertices, t) > 0

\* what the code does instead: every emitted triangle is clockwise seen from outside
SphereWindingCW ==
    (gs.phase = "done" /\ ValidParams) =>
        \A t \in Triangles(gs.vertices) : Orientation(gs.vertices, t) < 0

\* vertex n (from 0) of a float sequence
VertexPos(v, n) == [k \in 1 .. 3 |-> v[6 * n + k]]
VertexNormal(v, n) == [k \in 1 .. 3 |-> v[6 * n + 3 + k]]

\* rounding allowed on a coordinate of size radius, and on a squared unit length
PosTol(radius) == radius \div Scale + 2
NormTol == (Scale * Scale) \div 1000

OutwardUnitNormals(v, radius) ==
    \A n \in 0 .. (Len(v) \div 6 - 1) :
        /\ \A k \in 1 .. 3 : VertexNormal(v, n)[k] = FDiv(VertexPos(v, n)[k], radius)
        /\ \A k \in 1 .. 3 :
             Abs(FMul(radius, VertexNormal(v, n)[k]) - VertexPos(v, n)[k]) <= PosTol(radius)
        /\ Abs(Dot(VertexNormal(v, n), VertexNormal(v, n)) - Scale * Scale) <= NormTol

\* C7: for valid parameters every vertex, in the grid and in the output, carries
\* normal = position / radius, so position = radius * normal, and the normal has
\* length 1, up to rounding.
SphereNormalsOutwardUnit ==
    ValidParams =>
        /\ OutwardUnitNormals(gs.tempVertices, gs.radius)
        /\ OutwardUnitNormals(gs.vertices, gs.radius)

SphereNormalsWitness ==
    /\ gs.phase = "done"
    /\ ValidParams
    /\ gs.radius = Scale \div 2
    /\ Len(gs.vertices) > 0
    /\ \E n \in 0 .. (Len(gs.vertices) \div 6 - 1) :
         /\ VertexPos(gs.vertices, n)[1] # 0
         /\ VertexNormal(gs.vertices, n)[1] # VertexPos(gs.vertices, n)[1]

-----------------------------------------------------------------------------
(* Properties of the render loop and of start-up (checked under Spec) *)

\* this step issues call `ops` for window w
Issues(ops, w) ==
    /\ Len(log') = Len(log) + 1
    /\ log'[Len(log')].op \in ops
    /\ log'[Len(log')].win = w

\* the calls of kind `ops` issued for window w so far in this tick
Issued(ops, w) == {n \in DOMAIN log : log[n].op \in ops /\ log[n].win = w}

\* C1: when the multi-window loop exits, every window's close flag is set.
LoopExitsWhenAllClosed ==
    (prog = "multi" /\ pc = "cleanup") => \A w \in Win : shouldClose[w]

\* C2 as stated: once a window's close flag is set, no clear, draw or swap is
\* issued for it any more, not even later in the same tick.
NoRenderAfterCloseRequest ==
    [][\A w \in Win : shouldClose[w] => ~Issues(RenderOps, w)]_vars

\* the flag of w was set by processInput (ESC) in the current tick
ClosedByInput(w) ==
    shouldClose[w] /\ closeTick[w] = tick /\ Issued({"close"}, w) = {}

\* a window whose flag processInput set still gets its clear, both draws and its swap
FinishesCloseTick ==
    \A w \in Win :
        (ClosedByInput(w) /\ pc \in {"poll", "loop", "cleanup", "terminate", "returned"}) =>
            \A o \in RenderOps : Issued({o}, w) # {}

\* C2, amended: a window whose close flag was set in an earlier tick gets no clear,
\* draw or swap; in the tick in which processInput sets the flag the window is still
\* cleared, drawn and presented.
NoRenderAfterCloseTick ==
    /\ []FinishesCloseTick
    /\ [][\A w \in Win :
            (shouldClose[w] /\ closeTick[w] # tick) => ~Issues(RenderOps, w)]_vars

NoRenderAfterCloseTickWitness ==
    /\ pc = "returned"
    /\ \E w \in Win :
         /\ ClosedByInput(w)
         /\ "ESC" \in keys[w]
         /\ Issued({"swap"}, w) # {}

\* C3: in each tick of the multi-window loop the light position is written once,
\* before any window is handled; the value given to every lighting shader and to
\* every marker translation in that tick is that one value, and no later call of
\* the tick changes lightPos.
LightSharedPerTick ==
    (prog = "multi" /\ log # <<>>) =>
        /\ log[1].op = "light"
        /\ Cardinality(Issued({"light"}, -1)) = 1
        /\ \A n \in DOMAIN log : log[n].light = log[1].light
        /\ lightPos = log[1].light

LightSharedPerTickWitness ==
    /\ prog = "multi"
    /\ pc = "poll"
    /\ tick = 2
    /\ lightPos.x # lightCenter.x
    /\ \A w \in Win : Issued({"sphere"}, w) # {} /\ Issued({"cube"}, w) # {}

\* camera and cursor state of window-data slot v
SurfaceState(v) ==
    <<windows[v].camera, windows[v].lastX, windows[v].lastY, windows[v].firstMouse>>

\* C8: in the multi-window program, processInput, a cursor event and a scroll event
\* of window w leave camera, lastX, lastY and firstMouse of every other window as
\* they were.
SurfacesIndependent ==
    [][prog = "multi" =>
        \A w \in Win :
            Issues({"input", "cursor", "scroll"}, w) =>
                \A v \in Win \ {w} : SurfaceState(v)' = SurfaceState(v)]_vars

SurfacesIndependentWitness ==
    /\ prog = "multi"
    /\ log # <<>>
    /\ log[Len(log)].op = "cursor"
    /\ log[Len(log)].win = 1
    /\ ~windows[1].firstMouse
    /\ windows[1].lastX \in {p[1] : p \in CursorPositions}
    /\ SurfaceState(0) = SurfaceState(2)
    /\ windows[0].firstMouse

\* C9: whenever main has returned, glfwTerminate was called and no GL object is
\* left alive.
TeardownOnEveryExit ==
    pc = "returned" => (terminated /\ glObjects = {})

\* C10: a NULL window handle ends the program at the check: the diagnostic is
\* written, the loop is never entered, nothing is drawn or presented, and main
\* returns a non-zero value.
NullWindowIsFatal ==
    (pc # "create" /\ \E w \in Win : ~window[w]) =>
        /\ pc \in {"checkWindow", "returned"}
        /\ tick = 0
        /\ log = <<>>
        /\ pc = "returned" => (exitCode # 0 /\ out = <<WindowFailedMsg>>)

NullWindowIsFatalWitness ==
    /\ prog = "multi"
    /\ pc = "returned"
    /\ window[0] /\ ~window[1] /\ window[2]
    /\ exitCode = -1
    /\ out = <<WindowFailedMsg>>

\* positions of main inside the render loop
LoopLabels == {"loop", "light", "turn", "input", "clear", "drawSphere", "drawCube", "swap",
               "poll"}

\* a shading procedure failed to build: its diagnostic was written
ShaderFailed == \E n \in DOMAIN out : out[n] = ShaderFailedMsg

\* both shading procedures of every window were built successfully
AllShadersUsable ==
    \A w \in Win : windows[w].lightingShader.compiled /\ windows[w].lightCubeShader.compiled

\* C11: a lighting or light-cube shader that fails to build ends the process at
\* start-up with a non-zero status, before any tick; the render loop only ever runs
\* with every shading procedure of every window successfully built.
ShaderFailureIsFatal ==
    /\ ShaderFailed => (pc = "returned" /\ exitCode # 0 /\ tick = 0 /\ log = <<>>)
    /\ (tick > 0 \/ pc \in LoopLabels) => AllShadersUsable

ShaderFailureIsFatalWitness ==
    /\ prog = "multi"
    /\ pc = "returned"
    /\ ShaderFailed
    /\ exitCode = ShaderFailureStatus
    /\ windows[2].lightCubeShader.compiled
    /\ windows[1].lightingShader = NullShader

\* the light positions handed to the draws of the current tick
DrawnLights == {log[n].light : n \in {m \in DOMAIN log : log[m].op \in {"sphere", "cube"}}}

\* C + (R sin(w t), R cos(w t), 0) for C = (0, 0, 3.5), R = 2, w = 1 and
\* t = time * pi / ClockDen seconds
OnOrbitAt(p, time) ==
    /\ p.x = 2 * SinPi(time, ClockDen)
    /\ p.y = 2 * CosPi(time, ClockDen)
    /\ p.z = (35 * Scale) \div 10
    /\ Abs(p.x * p.x + p.y * p.y - 4 * Scale * Scale) <= (4 * Scale * Scale) \div 1000

\* C12: the light position of every draw of a tick is C + (R sin(w t), R cos(w t), 0)
\* for the time t read by that tick's light update; t = 0 gives (0, 2, 3.5); the z
\* component is 3.5 in every state.
LightOnOrbit ==
    /\ lightPos.z = (35 * Scale) \div 10
    /\ \A p \in DrawnLights : OnOrbitAt(p, now)
    /\ now = 0 => \A p \in DrawnLights : p = [x |-> 0, y |-> 2 * Scale, z |-> (35 * Scale) \div 10]

LightOnOrbitWitness ==
    /\ pc = "poll"
    /\ now = 2
    /\ lastFrame = 1
    /\ \E p \in DrawnLights : p.x > p.y /\ p.y = Scale

-----------------------------------------------------------------------------
(* Further properties of generateSphere (checked under SpecSphere) *)

\* the six floats of grid vertex k (from 0) of tempVertices
GridVertexAt(k) == SubSeq(gs.tempVertices, 6 * k + 1, 6 * k + 6)

\* what cell (ci, cj) has to append: (k1, k2, k3) iff ci # 0, then (k2, k4, k3)
\* iff ci # stackCount - 1
CellTriangles(ci, cj) ==
    LET k1 == ci * (gs.sectorCount + 1) + cj
        k2 == k1 + 1
        k3 == (ci + 1) * (gs.sectorCount + 1) + cj
        k4 == k3 + 1
    IN  (IF ci # 0 THEN GridVertexAt(k1) \o GridVertexAt(k2) \o GridVertexAt(k3) ELSE <<>>)
        \o (IF ci # gs.stackCount - 1
            THEN GridVertexAt(k2) \o GridVertexAt(k4) \o GridVertexAt(k3) ELSE <<>>)

\* the output of the first c cells in row-major order
RECURSIVE CellsOutput(_)
CellsOutput(c) ==
    IF c = 0 THEN <<>>
    ELSE CellsOutput(c - 1) \o CellTriangles((c - 1) \div gs.sectorCount,
                                              (c - 1) % gs.sectorCount)

\* number of grid vertices pushed, and of cells visited, so far
GridVerticesDone ==
    IF gs.phase = "grid" THEN gs.i * (gs.sectorCount + 1) + gs.j
    ELSE (gs.stackCount + 1) * (gs.sectorCount + 1)
CellsDone ==
    CASE gs.phase = "grid" -> 0
      [] gs.phase = "tri"  -> gs.i * gs.sectorCount + gs.j
      [] OTHER             -> gs.stackCount * gs.sectorCount

\* C13: generateSphere first fills a (stackCount + 1) x (sectorCount + 1) grid row by
\* row, then visits the cells in row-major order; cell (i, j) appends triangle
\* (k1, k2, k3) iff i # 0, then (k2, k4, k3) iff i # stackCount - 1, and nothing else.
SphereGridAndCells ==
    /\ Len(gs.tempVertices) = 6 * GridVerticesDone
    /\ \A k \in 0 .. (GridVerticesDone - 1) :
          GridVertexAt(k)[3] = GridVertexAt((k \div (gs.sectorCount + 1)) * (gs.sectorCount + 1))[3]
    /\ gs.phase = "tri" => (gs.i \in 0 .. gs.stackCount - 1 /\ gs.j \in 0 .. gs.sectorCount - 1)
    /\ gs.vertices = CellsOutput(CellsDone)

SphereGridAndCellsWitness ==
    /\ gs.phase = "done"
    /\ gs.sectorCount = 4
    /\ gs.stackCount = 3
    /\ Len(gs.tempVertices) = 6 * 20
    /\ SubSeq(gs.vertices, 1, 18) = GridVertexAt(1) \o GridVertexAt(6) \o GridVertexAt(5)
    /\ SubSeq(gs.vertices, 73, 90) = GridVertexAt(5) \o GridVertexAt(6) \o GridVertexAt(10)
    /\ GridVertexAt(5) # GridVertexAt(6)

\* the corners of triangle t of the vertex sequence v are three different points
DistinctCorners(v, t) ==
    /\ VertexPos(v, 3 * t) # VertexPos(v, 3 * t + 1)
    /\ VertexPos(v, 3 * t + 1) # VertexPos(v, 3 * t + 2)
    /\ VertexPos(v, 3 * t) # VertexPos(v, 3 * t + 2)

\* C14: with sectorCount >= 3 and stackCount >= 2 no emitted triangle has two corners
\* at the same point: never two corners of a pole row, never the two ends (columns 0
\* and sectorCount) of one row.
NoCollapsedTriangles ==
    ValidParams => \A t \in Triangles(gs.vertices) : DistinctCorners(gs.vertices, t)

\* the grid does collapse (pole rows, seam column) and triangles touching a pole and
\* the seam are emitted
NoCollapsedTrianglesWitness ==
    /\ gs.phase = "done"
    /\ ValidParams
    /\ GridVertexAt(0) = GridVertexAt(1)
    /\ GridVertexAt(gs.sectorCount + 1) = GridVertexAt(2 * gs.sectorCount + 1)
    /\ \E t \in Triangles(gs.vertices) :
          VertexPos(gs.vertices, 3 * t + 2) = <<0, 0, -gs.radius>>
    /\ \E t \in Triangles(gs.vertices) :
          /\ VertexPos(gs.vertices, 3 * t) = VertexPos(gs.tempVertices, 2 * gs.sectorCount)
          /\ VertexPos(gs.vertices, 3 * t + 1) = VertexPos(gs.tempVertices, gs.sectorCount + 1)

-----------------------------------------------------------------------------
(* Order of the steps of a tick (checked under Spec) *)

\* the per-surface steps of a tick, in the order of the per-tick contract
SurfaceSteps == <<"input", "clear", "sphere", "cube", "swap">>

\* number of a step in the per-tick contract (0: not a step of the contract)
StepNumber(op) ==
    CASE op = "light"  -> 1
      [] op = "input"  -> 2
      [] op = "clear"  -> 3
      [] op = "sphere" -> 4
      [] op = "cube"   -> 5
      [] op = "swap"   -> 6
      [] OTHER         -> 0

\* the steps issued for window w so far in this tick, in order
StepsOf(w) ==
    LET IsStep(e) == e.win = w /\ StepNumber(e.op) > 1
        steps == SelectSeq(log, IsStep)
    IN  [n \in DOMAIN steps |-> steps[n].op]

\* positions of the log at which the light position was computed
LightAt == {n \in DOMAIN log : log[n].op = "light"}

\* C15 as stated: in both programs no step with a later number precedes a step with
\* an earlier number for the same surface and tick, the light update (step 1) being a
\* step of every surface.
StepsInContractOrder ==
    \A n, m \in DOMAIN log :
        (/\ n < m
         /\ StepNumber(log[n].op) > 0
         /\ StepNumber(log[m].op) > 0
         /\ (log[n].win = log[m].win \/ log[n].win = -1 \/ log[m].win = -1))
        => StepNumber(log[n].op) <= StepNumber(log[m].op)

\* C15, amended: for every surface and tick the steps are input, clear, main object,
\* marker cube, present, in this order and each once; the light position is computed
\* once per tick and before every draw of the tick: first of all steps in the
\* multi-window program, between the clear and the main object's draw in the
\* single-window program.
StepsInProgramOrder ==
    /\ \A w \in Win :
          /\ Len(StepsOf(w)) <= Len(SurfaceSteps)
          /\ StepsOf(w) = SubSeq(SurfaceSteps, 1, Len(StepsOf(w)))
          /\ (pc = "poll" /\ Issued({"skip"}, w) = {}) => StepsOf(w) = SurfaceSteps
    /\ Cardinality(LightAt) <= 1
    /\ \A n \in DOMAIN log :
          log[n].op \in {"sphere", "cube"} => \E m \in LightAt : m < n
    /\ prog = "multi" => \A m \in LightAt : m = 1
    /\ prog = "single" => \A m \in LightAt : m = 3 /\ log[1].op = "input" /\ log[2].op = "clear"
    /\ pc \in {"poll", "turn"} => LightAt # {}

StepsInProgramOrderWitness ==
    /\ prog = "single"
    /\ pc = "poll"
    /\ tick = 2
    /\ StepsOf(0) = SurfaceSteps
    /\ LightAt = {3}

\* the windows whose turn has come so far in this tick, in order
TurnsTaken ==
    LET IsTurn(e) == e.op \in {"current", "skip"}
        turns == SelectSeq(log, IsTurn)
    IN  [n \in DOMAIN turns |-> turns[n].win]

\* positions of the log at which glfwPollEvents returned; calls of the callbacks
PollsAt == {n \in DOMAIN log : log[n].op = "poll"}
EventOps == {"key", "cursor", "scroll", "close"}

\* window w's turn of this tick is over
TurnOver(w) ==
    \/ Len(TurnsTaken) > w + 1
    \/ Len(TurnsTaken) = w + 1 /\ pc \in {"turn", "poll", "loop", "cleanup", "terminate", "returned"}

\* the shape of a tick of the multi-window driver, read off the calls issued so far
TickShape ==
    prog = "multi" =>
        /\ Len(TurnsTaken) <= NumWindows
        /\ \A n \in DOMAIN TurnsTaken : TurnsTaken[n] = n - 1
        /\ \A w \in Win :
              /\ Issued({"skip"}, w) # {} => StepsOf(w) = <<>>
              /\ Cardinality(Issued({"swap"}, w)) <= 1
              /\ (Issued({"current"}, w) # {} /\ TurnOver(w)) =>
                    Cardinality(Issued({"swap"}, w)) = 1
              /\ \A n \in Issued({"input", "clear", "sphere", "cube", "swap"}, w) :
                    \E m \in Issued({"current"}, w) :
                        /\ m < n
                        /\ \A k \in (m + 1) .. (n - 1) : log[k].win = w
        /\ Cardinality(PollsAt) <= 1
        /\ \A n \in DOMAIN log :
              log[n].op \in EventOps \cup {"poll"} =>
                  /\ Len(TurnsTaken) = NumWindows
                  /\ \A m \in DOMAIN log :
                        log[m].op \notin EventOps \cup {"poll"} => m < n
        /\ \A n \in PollsAt : n = Len(log)
        /\ (pc = "loop" /\ tick > 0) => Cardinality(PollsAt) = 1

\* C16: in every tick the multi-window driver takes the windows in the order 0, 1, 2;
\* a window whose close flag is clear at its turn gets exactly one frame presented, a
\* window whose flag is set at its turn gets no input sampling, clear, draw or present;
\* events are polled once per tick, after all windows had their turn.
FixedOrderOneFramePerTick ==
    /\ []TickShape
    /\ [][prog = "multi" =>
            \A w \in Win :
                /\ Issues({"current"}, w) => ~shouldClose[w]
                /\ Issues({"skip"}, w) => shouldClose[w]
                /\ Issues({"input", "clear", "sphere", "cube", "swap"}, w) =>
                      (i = w /\ Issued({"current"}, w) # {})]_vars

FixedOrderOneFramePerTickWitness ==
    /\ prog = "multi"
    /\ pc = "loop"
    /\ tick = 2
    /\ TurnsTaken = <<0, 1, 2>>
    /\ \A w \in Win : Cardinality(Issued({"swap"}, w)) = 1 /\ StepsOf(w) = SurfaceSteps
    /\ PollsAt = {Len(log)}
    /\ \E n \in DOMAIN log : log[n].op \in EventOps

-----------------------------------------------------------------------------
(* Lifecycle of a surface (checked under Spec) *)

\* sphere and marker-cube geometry of window w is uploaded to w's context and both
\* shading-procedure references of w are set
SurfaceReady(w) ==
    /\ \A t \in {"vao", "vbo"}, n \in {1, 2} : [type |-> t, name |-> n, ctx |-> w] \in glObjects
    /\ windows[w].lightingShader # NullShader
    /\ windows[w].lightCubeShader # NullShader

\* the lifecycle state of window w, read off the program state
LifecycleOf(w) ==
    IF pc \in {"terminate", "returned"} THEN "Terminated"
    ELSE IF shouldClose[w] THEN "Closing"
    ELSE IF SurfaceReady(w) /\ tick > 0 THEN "Rendering"
    ELSE IF SurfaceReady(w) THEN "Ready"
    ELSE "Uninitialized"

LifecycleRank(state) ==
    CASE state = "Uninitialized" -> 0
      [] state = "Ready"         -> 1
      [] state = "Rendering"     -> 2
      [] state = "Closing"       -> 3
      [] state = "Terminated"    -> 4

\* C17: the lifecycle of every surface only moves forward along Uninitialized, Ready,
\* Rendering, Closing, Terminated, and no clear, draw or present is issued for a
\* surface that is not Ready (geometry uploaded, both shader references non-null).
LifecycleForward ==
    /\ [][\A w \in Win :
            LifecycleRank(LifecycleOf(w)') >= LifecycleRank(LifecycleOf(w))]_vars
    /\ [][\A w \in Win : Issues(RenderOps, w) => (SurfaceReady(w) /\ SurfaceReady(w)')]_vars

LifecycleForwardWitness ==
    /\ prog = "multi"
    /\ pc = "cleanup"
    /\ tick = 2
    /\ LifecycleOf(1) = "Closing"
    /\ LifecycleOf(0) = "Rendering"
    /\ Issued({"swap"}, 1) # {}

-----------------------------------------------------------------------------
(* GL objects and contexts, shaders and window titles (checked under Spec) *)

\* C18: in the multi-window program every shader program and vertex array used to
\* render window i, and every object deleted after the loop, was created in the
\* context that is current when it is used or deleted.
GLObjectsInOwnContext ==
    prog = "multi" =>
        /\ pc = "drawSphere" => \A o \in SphereDrawObjects(i) : o.ctx = context
        /\ pc = "drawCube" => \A o \in CubeDrawObjects(i) : o.ctx = context
        /\ pc = "cleanup" => \A o \in CleanupDeletes : o.ctx = context

\* what holds instead: the vertex arrays are used in their own context, and only
\* window 1 is drawn with programs of its own context
VertexArraysInOwnContext ==
    (prog = "multi" /\ pc \in {"drawSphere", "drawCube"}) =>
        /\ context = i
        /\ \A o \in SphereDrawObjects(i) \cup CubeDrawObjects(i) :
              o.type = "vao" => o.ctx = context
        /\ windows[i].lightingShader.ctx = 2 - i

\* the lighting shader of the shading model a window title names
TitleShader(title) ==
    CASE title = "LearnOpenGL - Phong"   -> ModelShader.Phong
      [] title = "LearnOpenGL - Gouraud" -> ModelShader.Gouraud
      [] title = "LearnOpenGL - Flat"    -> ModelShader.Flat
      [] OTHER                           -> "none"

\* C19: in the multi-window program the sphere of every window is drawn with the
\* lighting shader of the shading model its title names, in every tick.
TitledShaderUsed ==
    (prog = "multi" /\ pc = "drawSphere") =>
        windows[i].lightingShader.vs = TitleShader(Title(i))

\* what the code does instead: windows 0 ("Phong") and 2 ("Flat") use each other's shader
TitledShaderSwapped ==
    (prog = "multi" /\ pc = "drawSphere") =>
        windows[i].lightingShader.vs = TitleShader(Title(2 - i))

\* C20: with the close flag of a window set only by processInput of that window or
\* by glfwPollEvents at the end of a tick, the "skip if window is closed" branch of the
\* multi-window loop is never taken: the flag of a window is clear at each of its
\* turns, and in the tick in which a window asks to close by ESC that window and
\* the windows after it are still cleared, drawn and presented.
SkipNeverTaken ==
    prog = "multi" =>
        /\ pc = "turn" => ~shouldClose[i]
        /\ \A w \in Win : Issued({"skip"}, w) = {}
        /\ (pc = "poll" /\ \E w \in Win : ClosedByInput(w)) =>
              \A v \in Win : StepsOf(v) = SurfaceSteps /\ Issued({"current"}, v) # {}

SkipNeverTakenWitness ==
    /\ prog = "multi"
    /\ pc = "poll"
    /\ ClosedByInput(0)
    /\ ~shouldClose[1] /\ ~shouldClose[2]
    /\ \A v \in Win : StepsOf(v) = SurfaceSteps
    /\ \E n \in Issued({"input"}, 0), m \in Issued({"swap"}, 2) : n < m

-----------------------------------------------------------------------------
(* The cursor-position callback (checked under SpecCursor) *)

\* the calls of the cursor-position callback of window w so far, in order
CursorCalls(w) ==
    LET IsCursor(e) == e.op = "cursor" /\ e.win = w
    IN  SelectSeq(log, IsCursor)

\* the calls recorded so far hang together: first offset (0, 0), every later offset
\* taken against the call before it, lastX, lastY at the last position
CursorCallsChained ==
    \A w \in {v \in Win : DataOf(v) \in Win} :
        LET calls == CursorCalls(w)
            data  == windows[DataOf(w)]
        IN  /\ data.firstMouse <=> calls = <<>>
            /\ calls # <<>> =>
                  /\ calls[1].xoffset = 0 /\ calls[1].yoffset = 0
                  /\ data.lastX = calls[Len(calls)].xpos
                  /\ data.lastY = calls[Len(calls)].ypos
            /\ \A n \in 2 .. Len(calls) :
                  /\ calls[n].xoffset = calls[n].xpos - calls[n - 1].xpos
                  /\ calls[n].yoffset = calls[n - 1].ypos - calls[n].ypos

\* this step's call for window w took its offsets against the data as it was before
\* the call and left the reported position in lastX, lastY
CursorCallAgainstLast(w) ==
    LET e     == log'[Len(log')]
        data  == windows[DataOf(w)]
        after == windows'[DataOf(w)]
    IN  /\ data.firstMouse => (e.xoffset = 0 /\ e.yoffset = 0)
        /\ ~data.firstMouse =>
              (e.xoffset = e.xpos - data.lastX /\ e.yoffset = data.lastY - e.ypos)
        /\ after.lastX = e.xpos /\ after.lastY = e.ypos /\ ~after.firstMouse

\* C21: for every window, the first cursor event hands offset (0, 0) to
\* ProcessMouseMovement and clears firstMouse, which is never set again; every later
\* event hands over (xpos - lastX, lastY - ypos) taken against the position of the
\* event just before it; after every event lastX, lastY are that event's position.
CursorOffsetsChain ==
    /\ []CursorCallsChained
    /\ [][\A w \in {v \in Win : DataOf(v) \in Win} :
            /\ ~windows[DataOf(w)].firstMouse => ~windows'[DataOf(w)].firstMouse
            /\ Issues({"cursor"}, w) => CursorCallAgainstLast(w)]_vars

CursorOffsetsChainWitness ==
    /\ prog = "multi"
    /\ Len(CursorCalls(1)) = 3
    /\ CursorCalls(1)[2].xoffset = -15 /\ CursorCalls(1)[2].yoffset = -20
    /\ CursorCalls(1)[3].xoffset = 15 /\ CursorCalls(1)[3].yoffset = 20
    /\ windows[1].lastX = 410 /\ windows[1].lastY = 290
    /\ windows[0].firstMouse

-----------------------------------------------------------------------------
(* Reads of tempVertices (checked under SpecSphere) *)

\* C22: for sectorCount >= 1 and stackCount >= 1 every read tempVertices[k * 6 + c],
\* c in 0 .. 5, of the triangulation loop is in bounds: each corner index k that is
\* read lies in 0 .. (stackCount + 1) * (sectorCount + 1) - 1, the grid vertices the
\* first loop nest has pushed.
TempReadsInBounds ==
    gs.phase = "tri" =>
        /\ Len(gs.tempVertices) = 6 * (gs.stackCount + 1) * (gs.sectorCount + 1)
        /\ \A k \in CornersRead(gs) :
              /\ 0 <= k
              /\ k <= (gs.stackCount + 1) * (gs.sectorCount + 1) - 1
              /\ \A c \in 0 .. 5 : (k * 6 + c) + 1 \in DOMAIN gs.tempVertices

\* the last cell of a sphere, and the cell of a one-sector sphere that reads the
\* highest index
TempReadsInBoundsWitness ==
    /\ gs.phase = "tri"
    /\ gs.i = gs.stackCount - 1
    /\ gs.j = gs.sectorCount - 1
    /\ \/ gs.sectorCount = 4 /\ gs.stackCount = 3 /\ CornersRead(gs) = {13, 14, 18}
       \/ gs.sectorCount = 1 /\ gs.stackCount = 2 /\ CornersRead(gs) = {2, 3, 4}

====
